---- MODULE Spec2Model ----
(***************************************************************************)
(* ODataEdmBuilder (PyOdataEdmModel/EdmModel.py) as a state machine.       *)
(*                                                                         *)
(* Python dicts are records whose DOMAIN is the set of keys present, so    *)
(* `"BaseType" in entity_type` reads "BaseType" \in DOMAIN entity_type.    *)
(* A dict reference held by the caller is the position of the dict in the  *)
(* list that owns it (schema s, entity type t of s, container c of s).     *)
(* call, ret and err are the arguments of the last call, the value it      *)
(* returned and the exception it raised ("" when it returned).             *)
(*                                                                         *)
(* OdataConverter (PyOdataEdmModel/odata_mapper.py) stands beside it:      *)
(* template is the JSON document at file_path and converter the instance   *)
(* the caller holds.  A Python str whose letters matter is the sequence of *)
(* its characters.                                                         *)
(***************************************************************************)
EXTENDS Integers, Sequences, FiniteSets, TLC

VARIABLES namespace, service_name, schemas, metadata, call, ret, err,
          template, converter

vars == <<namespace, service_name, schemas, metadata, call, ret, err,
          template, converter>>

(***************************************************************************)
(* Bounds of the model.                                                    *)
(***************************************************************************)
\* the number of dicts and key names the graph holds, all operations at work
MaxNodes == 3
\* the same with the navigation operations alone at work
MaxNavigationNodes == 5
\* the number of properties of the entity type the numeric arguments are tried on
MaxProperties == 1
\* the same as MaxNodes with the operations of the round trip alone at work
MaxRoundTripNodes == 6
\* the same with the operations around entity sets alone at work
MaxEntitySetNodes == 7
\* the same with schemas and entity types with base types alone at work
MaxBaseTypeNodes == 4
\* the same with every operation that adds to the graph at work
MaxDocumentNodes == 6

(***************************************************************************)
(* Numbers as Python sees them: None, NaN, or a number counted in halves   *)
(* (halves = 5 is 2.5), enough for zero, negative and fractional values.   *)
(***************************************************************************)
None == [kind |-> "None", halves |-> 0]
NaN == [kind |-> "NaN", halves |-> 0]
Num(h) == [kind |-> "Num", halves |-> h]
Whole(n) == Num(n + n)

\* bool(x): None and 0 are false, every other number (NaN too) is true
Truthy(x) == x.kind = "NaN" \/ (x.kind = "Num" /\ x.halves # 0)

\* math.isnan(x)
isnan(x) == x.kind = "NaN"

\* int(x) of a number: truncation toward zero
int(x) == IF x.halves >= 0 THEN x.halves \div 2 ELSE -((-x.halves) \div 2)

\* str(b).lower() of a bool
lower_str(b) == IF b THEN "true" ELSE "false"

(***************************************************************************)
(* Dict helpers.                                                           *)
(***************************************************************************)
\* d[k] = v on a dict that may not hold k yet
SetItem(d, k, v) == [x \in DOMAIN d \cup {k} |-> IF x = k THEN v ELSE d[x]]

RECURSIVE SumSeq(_)
SumSeq(q) == IF q = <<>> THEN 0 ELSE Head(q) + SumSeq(Tail(q))

NavigationPropertiesOf(entity_type) ==
    IF "NavigationProperties" \in DOMAIN entity_type
    THEN entity_type.NavigationProperties
    ELSE <<>>

KeysOf(entity_type) ==
    IF "Keys" \in DOMAIN entity_type THEN entity_type.Keys ELSE <<>>

\* the number of dicts and key names in the graph
Size(ss) ==
    Len(ss)
    + SumSeq([s \in 1..Len(ss) |->
          Len(ss[s].EntityTypes) + Len(ss[s].EntityContainers)
          + SumSeq([t \in 1..Len(ss[s].EntityTypes) |->
                Len(KeysOf(ss[s].EntityTypes[t]))
                + Len(ss[s].EntityTypes[t].Properties)
                + Len(NavigationPropertiesOf(ss[s].EntityTypes[t]))])
          + SumSeq([c \in 1..Len(ss[s].EntityContainers) |->
                Len(ss[s].EntityContainers[c].EntitySets)])])

(***************************************************************************)
(* The primitive types a PropertyRef key may have (primitives.py).         *)
(***************************************************************************)
primitives == {"Edm.Int32", "Edm.String", "Edm.Decimal"}

(***************************************************************************)
(* Values returned and exceptions raised.                                  *)
(***************************************************************************)
RetNone == [kind |-> "None"]
RetRef(p) == [kind |-> "ref", path |-> p]
RetDict(d) == [kind |-> "dict", val |-> d]
RetStr(t) == [kind |-> "str", text |-> t]

\* the call returns r
Return(c, r) == call' = c /\ ret' = r /\ err' = ""

\* the call raises e
Raise(c, e) == call' = c /\ ret' = RetNone /\ err' = e

\* a lookup's outcome: the position found (0 is Python's None) or the exception
Found(i) == [err |-> "", ref |-> i]
Failed(e) == [err |-> e, ref |-> 0]

\* no OdataConverter has been constructed
NoConverter == [constructed |-> FALSE, database_client |-> <<>>, json_data |-> <<>>]

(***************************************************************************)
(* __init__ and clear                                                      *)
(***************************************************************************)
Init ==
    /\ namespace \in {"NS"}
    /\ service_name = "Service"
    /\ schemas = <<>>
    /\ metadata = <<>>
    /\ call = [op |-> "__init__"]
    /\ ret = RetNone
    /\ err = ""
    /\ template = <<>>
    /\ converter = NoConverter

\* mutant: the namespace and the service name are kept
clear_keeping_names ==
    /\ schemas' = <<>>
    /\ metadata' = <<>>
    /\ Return([op |-> "clear"], RetNone)
    /\ UNCHANGED <<namespace, service_name, template, converter>>

clear ==
    /\ namespace' = ""
    /\ service_name' = ""
    /\ schemas' = <<>>
    /\ metadata' = <<>>
    /\ Return([op |-> "clear"], RetNone)
    /\ UNCHANGED <<template, converter>>

(***************************************************************************)
(* add_schema                                                              *)
(***************************************************************************)
new_schema(schema_name, alias) ==
    LET schema == [Namespace |-> schema_name,
                   EntityTypes |-> <<>>,
                   EntityContainers |-> <<>>]
    IN IF alias # "" THEN SetItem(schema, "Alias", alias) ELSE schema

\* mutant: the schema is put before the schemas of the model
add_schema_first(schema_name, alias) ==
    /\ schemas' = <<new_schema(schema_name, alias)>> \o schemas
    /\ Return([op |-> "add_schema", schema_name |-> schema_name, alias |-> alias],
              RetRef(<<1>>))
    /\ UNCHANGED <<namespace, service_name, metadata, template, converter>>

add_schema(schema_name, alias) ==
    /\ schemas' = Append(schemas, new_schema(schema_name, alias))
    /\ Return([op |-> "add_schema", schema_name |-> schema_name, alias |-> alias],
              RetRef(<<Len(schemas) + 1>>))
    /\ UNCHANGED <<namespace, service_name, metadata, template, converter>>

(***************************************************************************)
(* get_schema_by_name: the for loop from schema i on.  A schema that       *)
(* matches neither by Namespace nor by Alias is skipped when it has an     *)
(* Alias; one without an Alias takes the else branch and raises.  Falling  *)
(* off the end of the loop returns None.                                   *)
(***************************************************************************)
RECURSIVE schema_loop(_, _, _)
schema_loop(ss, schema_name, i) ==
    IF i > Len(ss) THEN Found(0)
    ELSE IF ss[i].Namespace = schema_name THEN Found(i)
    ELSE IF "Alias" \in DOMAIN ss[i]
         THEN IF ss[i].Alias = schema_name
              THEN Found(i)
              ELSE schema_loop(ss, schema_name, i + 1)
         ELSE Failed("ValueError")

get_schema_by_name(ss, schema_name) == schema_loop(ss, schema_name, 1)

get_schema_by_name_call(schema_name) ==
    LET c == [op |-> "get_schema_by_name", schema_name |-> schema_name]
        r == get_schema_by_name(schemas, schema_name)
    IN /\ IF r.err # "" THEN Raise(c, r.err)
          ELSE IF r.ref = 0 THEN Return(c, RetNone)
          ELSE Return(c, RetRef(<<r.ref>>))
       /\ UNCHANGED <<namespace, service_name, schemas, metadata, template, converter>>

(***************************************************************************)
(* A schema argument: the dict itself (ref > 0) or its name or alias.      *)
(***************************************************************************)
SchemaDict(s) == [ref |-> s, name |-> ""]
SchemaStr(n) == [ref |-> 0, name |-> n]

\* if isinstance(schema, str): schema = self.get_schema_by_name(schema)
resolve_schema(ss, schema) ==
    IF schema.ref # 0 THEN Found(schema.ref)
    ELSE get_schema_by_name(ss, schema.name)

(***************************************************************************)
(* add_entity_container                                                    *)
(***************************************************************************)
add_entity_container(schema, container_name) ==
    LET c == [op |-> "add_entity_container", schema |-> schema,
              container_name |-> container_name]
        r == resolve_schema(schemas, schema)
        entity_container == [Name |-> container_name, EntitySets |-> <<>>]
    IN /\ IF r.err # "" THEN Raise(c, r.err) /\ UNCHANGED schemas
          \* None["EntityContainers"]
          ELSE IF r.ref = 0 THEN Raise(c, "TypeError") /\ UNCHANGED schemas
          ELSE /\ schemas' = [schemas EXCEPT ![r.ref].EntityContainers =
                                   Append(@, entity_container)]
               /\ Return(c, RetRef(<<r.ref, Len(schemas[r.ref].EntityContainers) + 1>>))
       /\ UNCHANGED <<namespace, service_name, metadata, template, converter>>

(***************************************************************************)
(* get_entity_type_by_name on a schema dict: the first entity type of the  *)
(* schema with that name, KeyError when there is none.                     *)
(***************************************************************************)
\* mutant: a name the schema does not hold is taken for its first entity type
get_entity_type_by_name_or_first(schema, entity_type_name) ==
    LET hits == {t \in 1..Len(schema.EntityTypes) :
                    schema.EntityTypes[t].Name = entity_type_name}
    IN IF hits # {} THEN Found(CHOOSE t \in hits : \A u \in hits : t <= u)
       ELSE IF Len(schema.EntityTypes) > 0 THEN Found(1)
       ELSE Failed("KeyError")

get_entity_type_by_name(schema, entity_type_name) ==
    LET hits == {t \in 1..Len(schema.EntityTypes) :
                    schema.EntityTypes[t].Name = entity_type_name}
    IN IF hits = {} THEN Failed("KeyError")
       ELSE Found(CHOOSE t \in hits : \A u \in hits : t <= u)

(***************************************************************************)
(* add_entity_type.  base_type is "" (none), the name of an entity type    *)
(* of the schema, or an entity type dict, of which only Name is read.      *)
(***************************************************************************)
BaseNone == [is_dict |-> FALSE, Name |-> ""]
BaseStr(n) == [is_dict |-> FALSE, Name |-> n]
BaseDict(n) == [is_dict |-> TRUE, Name |-> n]

new_documentation(summary, long_description) ==
    [k \in (IF summary # "" THEN {"Summary"} ELSE {})
           \cup (IF long_description # "" THEN {"LongDescription"} ELSE {}) |->
        IF k = "Summary" THEN summary ELSE long_description]

\* mutant: the empty key list is set whether or not there is a base type
new_entity_type_keys_always(entity_type_name, base_name, summary, long_description) ==
    LET entity_type == [Name |-> entity_type_name, Properties |-> <<>>]
        typed == IF base_name # ""
                 THEN SetItem(entity_type, "BaseType", base_name)
                 ELSE entity_type
    IN SetItem(SetItem(typed, "Keys", <<>>), "Documentation",
               new_documentation(summary, long_description))

\* the entity type dict built before it is appended, given the resolved BaseType
new_entity_type(entity_type_name, base_name, summary, long_description) ==
    LET entity_type == [Name |-> entity_type_name, Properties |-> <<>>]
        typed == IF base_name # ""
                 THEN SetItem(entity_type, "BaseType", base_name)
                 ELSE SetItem(entity_type, "Keys", <<>>)
    IN SetItem(typed, "Documentation", new_documentation(summary, long_description))

add_entity_type(schema, entity_type_name, base_type, summary, long_description) ==
    LET c == [op |-> "add_entity_type", schema |-> schema,
              entity_type_name |-> entity_type_name, base_type |-> base_type,
              summary |-> summary, long_description |-> long_description]
        r == resolve_schema(schemas, schema)
        \* self.get_entity_type_by_name(schema, base_type)["Name"]
        b == IF r.ref = 0 THEN Failed("TypeError")
             ELSE get_entity_type_by_name(schemas[r.ref], base_type.Name)
        by_name == base_type.Name # "" /\ ~base_type.is_dict
        base_name == IF by_name
                     THEN schemas[r.ref].EntityTypes[b.ref].Name
                     ELSE base_type.Name
    IN /\ IF r.err # "" THEN Raise(c, r.err) /\ UNCHANGED schemas
          ELSE IF by_name /\ b.err # "" THEN Raise(c, b.err) /\ UNCHANGED schemas
          \* None["EntityTypes"]
          ELSE IF r.ref = 0 THEN Raise(c, "TypeError") /\ UNCHANGED schemas
          ELSE /\ schemas' = [schemas EXCEPT ![r.ref].EntityTypes =
                                   Append(@, new_entity_type(entity_type_name, base_name,
                                                             summary, long_description))]
               /\ Return(c, RetRef(<<r.ref, Len(schemas[r.ref].EntityTypes) + 1>>))
       /\ UNCHANGED <<namespace, service_name, metadata, template, converter>>

(***************************************************************************)
(* add_key                                                                 *)
(***************************************************************************)
\* mutant: every property type is accepted as the type of a key
is_primitive_any(property_type) == TRUE

\* property_type in primitives
is_primitive(property_type) == property_type \in primitives

add_key(s, t, property_name, property_type) ==
    LET c == [op |-> "add_key", s |-> s, t |-> t, property_name |-> property_name,
              property_type |-> property_type]
        entity_type == schemas[s].EntityTypes[t]
    IN /\ IF "BaseType" \in DOMAIN entity_type
          THEN Raise(c, "ValueError") /\ UNCHANGED schemas
          ELSE IF is_primitive(property_type)
          THEN /\ schemas' = [schemas EXCEPT ![s].EntityTypes[t].Keys =
                                   Append(@, property_name)]
               /\ Return(c, RetNone)
          ELSE Raise(c, "ValueError") /\ UNCHANGED schemas
       /\ UNCHANGED <<namespace, service_name, metadata, template, converter>>

(***************************************************************************)
(* add_property                                                            *)
(***************************************************************************)
\* mutant: MaxLength is attached whatever the type of the property
new_property_any_type(property_name, property_type, nullable, max_length, precision, scale) ==
    LET prop == [Name |-> property_name, Type |-> property_type, Nullable |-> nullable]
    IN IF Truthy(max_length) /\ ~isnan(max_length) /\ ~(int(max_length) = -1)
       THEN SetItem(prop, "MaxLength", int(max_length))
       ELSE prop

\* the prop dict built from the arguments
new_property(property_name, property_type, nullable, max_length, precision, scale) ==
    LET prop == [Name |-> property_name, Type |-> property_type, Nullable |-> nullable]
    IN IF property_type = "Edm.Decimal"
       THEN IF Truthy(precision) /\ Truthy(scale) /\ ~isnan(precision) /\ ~isnan(scale)
            THEN SetItem(SetItem(prop, "Precision", int(precision)), "Scale", int(scale))
            ELSE prop
       ELSE IF property_type = "Edm.String"
       THEN IF Truthy(max_length) /\ ~isnan(max_length) /\ ~(int(max_length) = -1)
            THEN SetItem(prop, "MaxLength", int(max_length))
            ELSE prop
       ELSE prop

\* the names of a list of dicts
NamesOf(dicts) == {dicts[i].Name : i \in 1..Len(dicts)}

\* mutant: only the names of the properties are looked at
name_is_new_among_properties(entity_type, property_name) ==
    property_name \notin NamesOf(entity_type.Properties)

\* property_name is in neither list of existing names
name_is_new(entity_type, property_name) ==
    LET existing_property_names == NamesOf(entity_type.Properties)
        existing_navigation_property_names ==
            NamesOf(NavigationPropertiesOf(entity_type))
    IN /\ property_name \notin existing_property_names
       /\ property_name \notin existing_navigation_property_names

add_property(s, t, property_name, property_type, nullable, max_length, precision, scale) ==
    LET c == [op |-> "add_property", s |-> s, t |-> t, property_name |-> property_name,
              property_type |-> property_type, nullable |-> nullable,
              max_length |-> max_length, precision |-> precision, scale |-> scale]
        entity_type == schemas[s].EntityTypes[t]
        prop == new_property(property_name, property_type, nullable,
                             max_length, precision, scale)
    IN /\ IF name_is_new(entity_type, property_name)
          THEN /\ schemas' = [schemas EXCEPT ![s].EntityTypes[t].Properties =
                                   Append(@, prop)]
          ELSE UNCHANGED schemas
       /\ Return(c, RetDict(prop))
       /\ UNCHANGED <<namespace, service_name, metadata, template, converter>>

(***************************************************************************)
(* validate_entity_type                                                    *)
(***************************************************************************)
\* mutant: no rule is enforced
breaks_rule_1_never(entity_type) == FALSE

\* mutant: the base type is not looked at
breaks_rule_1_ignoring_base(entity_type) == Len(entity_type.Properties) = 0

\* Rule 1: no base type and no property
breaks_rule_1(entity_type) ==
    "BaseType" \notin DOMAIN entity_type /\ Len(entity_type.Properties) = 0

validate_entity_type(s, t) ==
    LET c == [op |-> "validate_entity_type", s |-> s, t |-> t]
        entity_type == schemas[s].EntityTypes[t]
    IN /\ IF breaks_rule_1(entity_type)
          THEN Raise(c, "ValueError")
          ELSE Return(c, RetNone)
       /\ UNCHANGED <<namespace, service_name, schemas, metadata, template, converter>>

(***************************************************************************)
(* add_navigation_property.  The loop tries every schema in order; once a  *)
(* schema holds an entity type of that name, referenced_entity is a dict   *)
(* and the lookups in the schemas after it all raise and are skipped.      *)
(* After the loop `schema` is the last schema of the model.                *)
(***************************************************************************)
\* <<schema, entity type>> the name resolves to, <<0, 0>> when no schema has it
resolve_referenced_entity(ss, referenced_entity) ==
    LET hits == {s \in 1..Len(ss) :
                    get_entity_type_by_name(ss[s], referenced_entity).err = ""}
    IN IF hits = {} THEN <<0, 0>>
       ELSE LET s == CHOOSE x \in hits : \A y \in hits : x <= y
            IN <<s, get_entity_type_by_name(ss[s], referenced_entity).ref>>

\* mutant: no navigation property is taken to point to itself
points_to_itself_never(referenced, entity_type) == FALSE

\* referenced_entity["Name"] == entity_type["Name"]
points_to_itself(referenced, entity_type) == referenced.Name = entity_type.Name

new_navigation_property(ss, entity_type, referenced, property_name, referenced_col, is_nullable) ==
    [Schema |-> ss[Len(ss)].Namespace,
     Name |-> referenced.Name,
     Type |-> referenced.Name,
     Partner |-> entity_type.Name,
     Nullable |-> is_nullable,
     Property |-> property_name,
     ReferencedProperty |-> referenced_col]

add_navigation_property(s, t, property_name, referenced_col, referenced_entity, is_nullable) ==
    LET c == [op |-> "add_navigation_property", s |-> s, t |-> t,
              property_name |-> property_name, referenced_col |-> referenced_col,
              referenced_entity |-> referenced_entity, is_nullable |-> is_nullable]
        entity_type == schemas[s].EntityTypes[t]
        r == resolve_referenced_entity(schemas, referenced_entity)
        referenced == schemas[r[1]].EntityTypes[r[2]]
        navigation_property ==
            new_navigation_property(schemas, entity_type, referenced, property_name,
                                    referenced_col, is_nullable)
    IN /\ \* referenced_entity is still a str: referenced_entity["Name"]
          IF r[1] = 0 THEN Raise(c, "TypeError") /\ UNCHANGED schemas
          ELSE IF points_to_itself(referenced, entity_type)
          THEN Raise(c, "ValueError") /\ UNCHANGED schemas
          ELSE /\ schemas' = [schemas EXCEPT ![s].EntityTypes[t] =
                     SetItem(@, "NavigationProperties",
                             Append(NavigationPropertiesOf(@), navigation_property))]
               /\ Return(c, RetNone)
       /\ UNCHANGED <<namespace, service_name, metadata, template, converter>>

(***************************************************************************)
(* add_entity_set.  The entity set is appended to the container before the *)
(* entity type is looked up, under the name of the SET, in schemas[0].     *)
(***************************************************************************)
\* mutant: the Target of a binding is the Partner of the navigation property
navigation_property_bindings_to_partner(entity_type) ==
    [i \in 1..Len(entity_type.NavigationProperties) |->
        [Path |-> entity_type.NavigationProperties[i].Type,
         Target |-> entity_type.NavigationProperties[i].Partner]]

navigation_property_bindings(entity_type) ==
    [i \in 1..Len(entity_type.NavigationProperties) |->
        [Path |-> entity_type.NavigationProperties[i].Type,
         Target |-> entity_type.NavigationProperties[i].Name]]

add_entity_set(s, k, entity_set_name, entity_type_name) ==
    LET c == [op |-> "add_entity_set", s |-> s, k |-> k,
              entity_set_name |-> entity_set_name,
              entity_type_name |-> entity_type_name]
        entity_set == [Name |-> entity_set_name, EntityType |-> entity_type_name]
        r == get_entity_type_by_name(schemas[1], entity_set_name)
        entity_type == schemas[1].EntityTypes[r.ref]
        n == Len(schemas[s].EntityContainers[k].EntitySets) + 1
    IN /\ IF r.err # ""
          THEN /\ schemas' = [schemas EXCEPT ![s].EntityContainers[k].EntitySets =
                                   Append(@, entity_set)]
               /\ Raise(c, r.err)
          ELSE /\ schemas' = [schemas EXCEPT ![s].EntityContainers[k].EntitySets =
                     Append(@, IF "NavigationProperties" \in DOMAIN entity_type
                               THEN SetItem(entity_set, "NavigationPropertyBinding",
                                            navigation_property_bindings(entity_type))
                               ELSE entity_set)]
               /\ Return(c, RetRef(<<s, k, n>>))
       /\ UNCHANGED <<namespace, service_name, metadata, template, converter>>

(***************************************************************************)
(* generate_metadata.  The document is the sequence of the pieces the      *)
(* method appends to the text, one record per `metadata +=`, each with the *)
(* values it formats in.                                                   *)
(***************************************************************************)
RECURSIVE Flatten(_)
Flatten(qs) == IF qs = <<>> THEN <<>> ELSE Head(qs) \o Flatten(Tail(qs))

render_documentation(documentation) ==
    IF DOMAIN documentation = {} THEN <<>>
    ELSE <<[tag |-> "Documentation"]>>
         \o (IF "Summary" \in DOMAIN documentation
             THEN <<[tag |-> "Summary", text |-> documentation.Summary]>>
             ELSE <<>>)
         \o (IF "LongDescription" \in DOMAIN documentation
             THEN <<[tag |-> "LongDescription", text |-> documentation.LongDescription]>>
             ELSE <<>>)
         \o <<[tag |-> "/Documentation"]>>

\* mutant: the keys are written last to first
render_keys_reversed(entity_type) ==
    IF "Keys" \in DOMAIN entity_type /\ Len(entity_type.Keys) > 0
    THEN <<[tag |-> "Key"]>>
         \o [i \in 1..Len(entity_type.Keys) |->
                [tag |-> "PropertyRef",
                 Name |-> entity_type.Keys[Len(entity_type.Keys) + 1 - i]]]
         \o <<[tag |-> "/Key"]>>
    ELSE <<>>

render_keys(entity_type) ==
    IF "Keys" \in DOMAIN entity_type /\ Len(entity_type.Keys) > 0
    THEN <<[tag |-> "Key"]>>
         \o [i \in 1..Len(entity_type.Keys) |->
                [tag |-> "PropertyRef", Name |-> entity_type.Keys[i]]]
         \o <<[tag |-> "/Key"]>>
    ELSE <<>>

render_property(prop) ==
    LET line == [tag |-> "Property", Name |-> prop.Name, Type |-> prop.Type,
                 Nullable |-> lower_str(prop.Nullable)]
    IN IF "MaxLength" \in DOMAIN prop
       THEN SetItem(line, "MaxLength", prop.MaxLength)
       \* `"Precision" and "Scale" in prop` is `"Scale" in prop`
       ELSE IF "Scale" \in DOMAIN prop
       THEN SetItem(SetItem(line, "Precision", prop.Precision), "Scale", prop.Scale)
       ELSE line

render_navigation_property(nav_prop) ==
    <<[tag |-> "NavigationProperty", Name |-> nav_prop.Name,
       TypeSchema |-> nav_prop.Schema, Type |-> nav_prop.Type,
       Partner |-> nav_prop.Partner, Nullable |-> lower_str(nav_prop.Nullable)],
      [tag |-> "ReferentialConstraint", Property |-> nav_prop.Property,
       ReferencedProperty |-> nav_prop.ReferencedProperty],
      [tag |-> "/NavigationProperty"]>>

render_entity_type(entity_type) ==
    <<IF "BaseType" \in DOMAIN entity_type
      \* ' BaseType="Self.{0}">'.format(entity_type["BaseType"])
      THEN [tag |-> "EntityType", Name |-> entity_type.Name,
            BaseType |-> <<"Self.", entity_type.BaseType>>]
      ELSE [tag |-> "EntityType", Name |-> entity_type.Name]>>
    \o render_documentation(entity_type.Documentation)
    \o render_keys(entity_type)
    \o [i \in 1..Len(entity_type.Properties) |->
           render_property(entity_type.Properties[i])]
    \o Flatten([i \in 1..Len(NavigationPropertiesOf(entity_type)) |->
           render_navigation_property(entity_type.NavigationProperties[i])])
    \o <<[tag |-> "/EntityType"]>>

render_entity_set(entity_set) ==
    IF "NavigationPropertyBinding" \in DOMAIN entity_set
    THEN <<[tag |-> "EntitySet", Name |-> entity_set.Name,
            EntityType |-> entity_set.EntityType]>>
         \o [i \in 1..Len(entity_set.NavigationPropertyBinding) |->
                [tag |-> "NavigationPropertyBinding",
                 Path |-> entity_set.NavigationPropertyBinding[i].Path,
                 Target |-> entity_set.NavigationPropertyBinding[i].Target]]
         \o <<[tag |-> "/EntitySet"]>>
    ELSE <<[tag |-> "EntitySet/", Name |-> entity_set.Name,
            EntityType |-> entity_set.EntityType]>>

render_entity_container(entity_container) ==
    <<[tag |-> "EntityContainer", Name |-> entity_container.Name]>>
    \o Flatten([i \in 1..Len(entity_container.EntitySets) |->
           render_entity_set(entity_container.EntitySets[i])])
    \o <<[tag |-> "/EntityContainer"]>>

\* mutant: the containers of a schema are written before its entity types
render_schema_containers_first(schema) ==
    <<IF "Alias" \in DOMAIN schema
      THEN [tag |-> "Schema", Namespace |-> schema.Namespace, Alias |-> schema.Alias]
      ELSE [tag |-> "Schema", Namespace |-> schema.Namespace]>>
    \o Flatten([k \in 1..Len(schema.EntityContainers) |->
           render_entity_container(schema.EntityContainers[k])])
    \o Flatten([t \in 1..Len(schema.EntityTypes) |->
           render_entity_type(schema.EntityTypes[t])])
    \o <<[tag |-> "/Schema"]>>

render_schema(schema) ==
    <<IF "Alias" \in DOMAIN schema
      THEN [tag |-> "Schema", Namespace |-> schema.Namespace, Alias |-> schema.Alias]
      ELSE [tag |-> "Schema", Namespace |-> schema.Namespace]>>
    \o Flatten([t \in 1..Len(schema.EntityTypes) |->
           render_entity_type(schema.EntityTypes[t])])
    \o Flatten([k \in 1..Len(schema.EntityContainers) |->
           render_entity_container(schema.EntityContainers[k])])
    \o <<[tag |-> "/Schema"]>>

render_metadata(ss) ==
    <<[tag |-> "?xml"], [tag |-> "edmx:Edmx"], [tag |-> "edmx:DataServices"]>>
    \o Flatten([s \in 1..Len(ss) |-> render_schema(ss[s])])
    \o <<[tag |-> "/edmx:DataServices"], [tag |-> "/edmx:Edmx"]>>

\* mutant: the text is appended to the metadata kept from the call before
generate_metadata_appending ==
    /\ metadata' = metadata \o render_metadata(schemas)
    /\ Return([op |-> "generate_metadata"], RetStr(metadata \o render_metadata(schemas)))
    /\ UNCHANGED <<namespace, service_name, schemas, template, converter>>

generate_metadata ==
    /\ metadata' = render_metadata(schemas)
    /\ Return([op |-> "generate_metadata"], RetStr(render_metadata(schemas)))
    /\ UNCHANGED <<namespace, service_name, schemas, template, converter>>

(***************************************************************************)
(* Python str methods, on a str as the sequence of its characters.         *)
(***************************************************************************)
ascii_uppercase ==
    <<"A", "B", "C", "D", "E", "F", "G", "H", "I", "J", "K", "L", "M",
      "N", "O", "P", "Q", "R", "S", "T", "U", "V", "W", "X", "Y", "Z">>
ascii_lowercase ==
    <<"a", "b", "c", "d", "e", "f", "g", "h", "i", "j", "k", "l", "m",
      "n", "o", "p", "q", "r", "s", "t", "u", "v", "w", "x", "y", "z">>
whitespace == {" ", "\t", "\n"}

\* the lower case letter of an upper case letter, any other character itself
lower_char(ch) ==
    IF \E i \in DOMAIN ascii_uppercase : ascii_uppercase[i] = ch
    THEN ascii_lowercase[CHOOSE i \in DOMAIN ascii_uppercase : ascii_uppercase[i] = ch]
    ELSE ch

\* text.lower()
lower(text) == [i \in 1..Len(text) |-> lower_char(text[i])]

\* ''.join(text.split())
join_split(text) == SelectSeq(text, LAMBDA ch : ch \notin whitespace)

\* table.get(key, default)
get(table, key, default) == IF key \in DOMAIN table THEN table[key] ELSE default

(***************************************************************************)
(* OdataConverter: __init__ with load_json_data, and convert_to_odata.     *)
(***************************************************************************)
RetName(t) == [kind |-> "name", name |-> t]

\* mutant: the whitespace of the client name is kept
database_client_lowered(database_client) == lower(database_client)

\* self.database_client = ''.join(database_client.split()).lower()
database_client_of(database_client) == lower(join_split(database_client))

\* load_json_data on the document json_data: the table to keep, or the exception
load_json_data(json_data, database_client) ==
    IF database_client \notin DOMAIN json_data
    THEN [err |-> "ValueError", json_data |-> <<>>]
    ELSE [err |-> "", json_data |-> json_data[database_client]]

\* converter = OdataConverter(file_path, database_client)
OdataConverter(file_path, database_client) ==
    LET c == [op |-> "OdataConverter", file_path |-> file_path,
              database_client |-> database_client]
        client == database_client_of(database_client)
        loaded == load_json_data(template, client)
    IN /\ IF loaded.err # ""
          THEN Raise(c, loaded.err) /\ UNCHANGED converter
          ELSE /\ converter' = [constructed |-> TRUE, database_client |-> client,
                                json_data |-> loaded.json_data]
               /\ Return(c, RetNone)
       /\ UNCHANGED <<template, namespace, service_name, schemas, metadata>>

\* converter.load_json_data(), called again on the instance
load_json_data_call ==
    LET c == [op |-> "load_json_data"]
        loaded == load_json_data(template, converter.database_client)
    IN /\ converter.constructed
       /\ IF loaded.err # ""
          THEN Raise(c, loaded.err) /\ UNCHANGED converter
          ELSE /\ converter' = [converter EXCEPT !.json_data = loaded.json_data]
               /\ Return(c, RetNone)
       /\ UNCHANGED <<template, namespace, service_name, schemas, metadata>>

\* converter.convert_to_odata(data_type)
convert_to_odata(data_type) ==
    /\ converter.constructed
    /\ Return([op |-> "convert_to_odata", data_type |-> data_type],
              RetName(get(converter.json_data, lower(data_type), "Edm.String")))
    /\ UNCHANGED <<template, converter, namespace, service_name, schemas, metadata>>

(***************************************************************************)
(* The Type Mapper at work: a template with any of three client keys, each *)
(* with one of four tables, and the client names and data types asked for. *)
(***************************************************************************)
Tables ==
    {<<>>,
     [k \in {<<"i", "n", "t">>} |-> "Edm.Int32"],
     [k \in {<<"I", "N", "T">>} |-> "Edm.Int32"],
     [k \in {<<"i", "n", "t">>, <<"I", "n", "t">>} |->
         IF k = <<"i", "n", "t">> THEN "Edm.Int32" ELSE "Edm.Int64"]}
ClientKeys == {<<"s", "q", "l">>, <<"S", "q", "l">>, <<"m", "y">>}
Templates == UNION {[keys -> Tables] : keys \in SUBSET ClientKeys}
ClientArgs == {<<"s", "q", "l">>, <<"S", "q", "l">>, <<"S", "Q", " ", "L">>,
               <<"\t", "M", "y", " ">>, <<"p", "g">>}
DataTypeArgs == {<<"i", "n", "t">>, <<"I", "N", "T">>, <<"I", "n", "t">>,
                 <<"g", "e", "o">>}

InitMapper ==
    /\ namespace = "NS"
    /\ service_name = "Service"
    /\ schemas = <<>>
    /\ metadata = <<>>
    /\ call = [op |-> "__init__"]
    /\ ret = RetNone
    /\ err = ""
    /\ template \in Templates
    /\ converter = NoConverter

NextMapper ==
    \/ \E database_client \in ClientArgs : OdataConverter("data.json", database_client)
    \/ load_json_data_call
    \/ \E data_type \in DataTypeArgs : convert_to_odata(data_type)

SpecMapper == InitMapper /\ [][NextMapper]_vars

(***************************************************************************)
(* The arguments the callers draw from.                                    *)
(***************************************************************************)
SchemaArgs == {<<"S1", "">>, <<"S2", "A2">>}
SchemaKeys == {"S1", "S2", "A2"}
ContainerNames == {"C1"}
EntityTypeArgs == {<<"T1", BaseNone, "", "">>,
                   <<"T2", BaseStr("T1"), "Sum", "">>,
                   <<"T2", BaseStr("T2"), "", "Long">>}
KeyArgs == {<<"Id", "Edm.Int32">>, <<"Id", "Self.Address">>}
PropertyArgs == {<<"Id", "Edm.Int32", FALSE, None, None, None>>,
                 <<"Name", "Edm.String", TRUE, Whole(10), None, None>>,
                 <<"T2", "Edm.Decimal", TRUE, None, Whole(10), Whole(2)>>}
NavigationArgs == {<<"T2Id", "Id", "T2", TRUE>>, <<"T1Id", "Id", "T1", FALSE>>}
EntitySetArgs == {<<"T1", "NS.T1">>, <<"ES1", "T1">>}

\* the dicts the caller can hold
SchemaRefs == 1..Len(schemas)
EntityTypeRefs ==
    UNION {{<<s, t>> : t \in 1..Len(schemas[s].EntityTypes)} : s \in 1..Len(schemas)}
ContainerRefs ==
    UNION {{<<s, k>> : k \in 1..Len(schemas[s].EntityContainers)} : s \in 1..Len(schemas)}
SchemaArguments == {SchemaDict(s) : s \in SchemaRefs} \cup {SchemaStr(n) : n \in SchemaKeys}
BaseDicts == {BaseDict(schemas[e[1]].EntityTypes[e[2]].Name) : e \in EntityTypeRefs}

\* the graph after the step is within the bound
Bounded == Size(schemas') <= MaxNodes

Next ==
    \/ clear
    \/ \E a \in SchemaArgs : add_schema(a[1], a[2]) /\ Bounded
    \/ \E n \in SchemaKeys : get_schema_by_name_call(n)
    \/ \E sch \in SchemaArguments, n \in ContainerNames :
           add_entity_container(sch, n) /\ Bounded
    \/ \E sch \in SchemaArguments, a \in EntityTypeArgs :
           add_entity_type(sch, a[1], a[2], a[3], a[4]) /\ Bounded
    \/ \E s \in SchemaRefs, b \in BaseDicts :
           add_entity_type(SchemaDict(s), "T2", b, "", "") /\ Bounded
    \/ \E e \in EntityTypeRefs, a \in KeyArgs :
           add_key(e[1], e[2], a[1], a[2]) /\ Bounded
    \/ \E e \in EntityTypeRefs, a \in PropertyArgs :
           add_property(e[1], e[2], a[1], a[2], a[3], a[4], a[5], a[6]) /\ Bounded
    \/ \E e \in EntityTypeRefs, a \in NavigationArgs :
           add_navigation_property(e[1], e[2], a[1], a[2], a[3], a[4]) /\ Bounded
    \/ \E r \in ContainerRefs, a \in EntitySetArgs :
           add_entity_set(r[1], r[2], a[1], a[2]) /\ Bounded
    \/ \E e \in EntityTypeRefs : validate_entity_type(e[1], e[2])
    \/ generate_metadata

Spec == Init /\ [][Next]_vars

(***************************************************************************)
(* Navigation properties at work: schemas, entity types without a base     *)
(* type, navigation properties and the properties that may collide with    *)
(* them, in a graph large enough for a navigation property to be added.    *)
(***************************************************************************)
NavigationBounded == Size(schemas') <= MaxNavigationNodes

NextNavigation ==
    \/ \E a \in SchemaArgs : add_schema(a[1], a[2]) /\ NavigationBounded
    \/ \E s \in SchemaRefs, n \in {"T1", "T2"} :
           add_entity_type(SchemaDict(s), n, BaseNone, "", "") /\ NavigationBounded
    \/ \E e \in EntityTypeRefs, a \in NavigationArgs :
           add_navigation_property(e[1], e[2], a[1], a[2], a[3], a[4])
           /\ NavigationBounded
    \/ \E e \in EntityTypeRefs, a \in PropertyArgs :
           add_property(e[1], e[2], a[1], a[2], a[3], a[4], a[5], a[6])
           /\ NavigationBounded

SpecNavigation == Init /\ [][NextNavigation]_vars

(***************************************************************************)
(* The numeric arguments of add_property at work, on the one entity type   *)
(* of the one schema: missing, NaN, zero, the sentinel -1, negative,       *)
(* fractional and positive values.                                         *)
(***************************************************************************)
Lengths == {None, NaN, Whole(0), Whole(-1), Whole(-5), Num(1), Num(-3), Whole(10)}
PrecisionScales == {<<None, None>>, <<Whole(10), Whole(2)>>, <<Whole(10), Whole(0)>>,
                    <<Whole(0), Whole(2)>>, <<None, Whole(2)>>, <<Whole(10), None>>,
                    <<NaN, Whole(2)>>, <<Whole(10), NaN>>, <<Num(5), Num(5)>>,
                    <<Whole(-3), Whole(-1)>>}
NumericArgs ==
    {<<"Edm.String", TRUE, l, ps[1], ps[2]>> :
        l \in Lengths, ps \in {<<None, None>>, <<Whole(10), Whole(2)>>}}
    \cup {<<"Edm.Decimal", TRUE, l, ps[1], ps[2]>> :
        l \in {None, Whole(10)}, ps \in PrecisionScales}
    \cup {<<"Edm.Int32", FALSE, None, None, None>>,
          <<"Edm.Int32", FALSE, Whole(10), Whole(10), Whole(2)>>}

NextProperty ==
    \/ schemas = <<>> /\ add_schema("S1", "")
    \/ /\ Len(schemas) = 1
       /\ schemas[1].EntityTypes = <<>>
       /\ add_entity_type(SchemaDict(1), "T1", BaseNone, "", "")
    \/ \E e \in EntityTypeRefs, n \in {"P", "Q"}, a \in NumericArgs :
           /\ add_property(e[1], e[2], n, a[1], a[2], a[3], a[4], a[5])
           /\ Len(schemas'[e[1]].EntityTypes[e[2]].Properties) <= MaxProperties

SpecProperty == Init /\ [][NextProperty]_vars

(***************************************************************************)
(* What the claims speak of.                                               *)
(***************************************************************************)
\* every entity type of the graph, as <<schema, entity type>>
AllEntityTypes ==
    UNION {{<<s, t>> : t \in 1..Len(schemas[s].EntityTypes)} : s \in 1..Len(schemas)}

EntityTypeAt(ss, e) == ss[e[1]].EntityTypes[e[2]]

\* the entity type the last call was made on, in the graph ss
Target(ss, c) == ss[c.s].EntityTypes[c.t]

HasBaseType(entity_type) == "BaseType" \in DOMAIN entity_type
HasKeys(entity_type) == "Keys" \in DOMAIN entity_type

\* the call left the builder and the converter as they were
NothingChanged ==
    UNCHANGED <<namespace, service_name, schemas, metadata, template, converter>>

\* the call changed the graph to ss and nothing else
OnlyGraphChanged(ss) ==
    /\ schemas' = ss
    /\ UNCHANGED <<namespace, service_name, metadata, template, converter>>

(***************************************************************************)
(* C1: in every reachable state no entity type has both a Keys list and a  *)
(* BaseType.                                                               *)
(***************************************************************************)
C1_KeysAndBaseTypeExclusive ==
    \A e \in AllEntityTypes :
        ~(HasKeys(EntityTypeAt(schemas, e)) /\ HasBaseType(EntityTypeAt(schemas, e)))

\* add_key was refused on an entity type with a base type, beside one with keys
C1_Witness ==
    /\ call.op = "add_key"
    /\ err = "ValueError"
    /\ HasBaseType(Target(schemas, call))
    /\ ~HasKeys(Target(schemas, call))
    /\ \E e \in AllEntityTypes : HasKeys(EntityTypeAt(schemas, e))

(***************************************************************************)
(* C2 as claimed: after validate_entity_type succeeds on an entity type,   *)
(* exactly one of {non-empty Keys, BaseType} holds of it.                  *)
(***************************************************************************)
C2_Original ==
    (call.op = "validate_entity_type" /\ err = "") =>
        ((Len(KeysOf(Target(schemas, call))) > 0) # HasBaseType(Target(schemas, call)))

(***************************************************************************)
(* C2 as amended: after validate_entity_type succeeds on an entity type,   *)
(* the type has a BaseType or at least one Property, and it never has both *)
(* a BaseType and keys; its Keys may be empty.                             *)
(***************************************************************************)
C2_ValidatedHasBaseOrProperty ==
    (call.op = "validate_entity_type" /\ err = "") =>
        /\ HasBaseType(Target(schemas, call))
           \/ Len(Target(schemas, call).Properties) > 0
        /\ ~(HasBaseType(Target(schemas, call))
             /\ Len(KeysOf(Target(schemas, call))) > 0)

\* validation succeeded on a type with no base type and no key
C2_Witness ==
    /\ call.op = "validate_entity_type"
    /\ err = ""
    /\ ~HasBaseType(Target(schemas, call))
    /\ Target(schemas, call).Keys = <<>>
    /\ Len(Target(schemas, call).Properties) > 0

(***************************************************************************)
(* C3: add_key raises when the entity type has a BaseType, whatever the    *)
(* property type, and when the property type is no primitive type, and     *)
(* then changes nothing; in every other case it appends the name at the    *)
(* end of the Keys of the entity type and changes nothing else.            *)
(***************************************************************************)
C3_AddKey ==
    [][call'.op = "add_key" =>
        IF HasBaseType(Target(schemas, call'))
           \/ call'.property_type \notin primitives
        THEN err' = "ValueError" /\ NothingChanged
        ELSE /\ err' = ""
             /\ OnlyGraphChanged(
                    [schemas EXCEPT ![call'.s].EntityTypes[call'.t].Keys =
                        Append(@, call'.property_name)])]_vars

\* a key of a primitive type was refused because of the base type
C3_Witness ==
    /\ call.op = "add_key"
    /\ err = "ValueError"
    /\ HasBaseType(Target(schemas, call))
    /\ call.property_type \in primitives

(***************************************************************************)
(* C4: validate_entity_type raises exactly when the entity type has no     *)
(* BaseType and no Property, and never changes the builder.                *)
(***************************************************************************)
C4_Validate ==
    [][call'.op = "validate_entity_type" =>
        /\ NothingChanged
        /\ IF ~HasBaseType(Target(schemas, call'))
              /\ Len(Target(schemas, call').Properties) = 0
           THEN err' = "ValueError"
           ELSE err' = ""]_vars

\* validation succeeded on a type with a base type and no property
C4_Witness ==
    /\ call.op = "validate_entity_type"
    /\ err = ""
    /\ HasBaseType(Target(schemas, call))
    /\ Len(Target(schemas, call).Properties) = 0

(***************************************************************************)
(* C5: add_navigation_property raises the self-reference error whenever    *)
(* the referenced name resolves to the entity type it is called on, and    *)
(* then records no navigation property.                                    *)
(***************************************************************************)
C5_SelfReferenceRefused ==
    [][(/\ call'.op = "add_navigation_property"
        /\ resolve_referenced_entity(schemas, call'.referenced_entity)
               = <<call'.s, call'.t>>)
       => (err' = "ValueError" /\ NothingChanged)]_vars

\* a self-reference was refused on a type that holds a navigation property
C5_Witness ==
    /\ call.op = "add_navigation_property"
    /\ err = "ValueError"
    /\ resolve_referenced_entity(schemas, call.referenced_entity) = <<call.s, call.t>>
    /\ Len(NavigationPropertiesOf(Target(schemas, call))) > 0

Supplied(x) == x.kind = "Num"

WellAttributed(prop) ==
    /\ ("Precision" \in DOMAIN prop) <=> ("Scale" \in DOMAIN prop)
    /\ "Precision" \in DOMAIN prop => prop.Type = "Edm.Decimal"
    /\ "MaxLength" \in DOMAIN prop => prop.Type = "Edm.String"
    /\ ~("MaxLength" \in DOMAIN prop /\ "Precision" \in DOMAIN prop)

C7_NumericAttributes ==
    /\ \A e \in AllEntityTypes :
           \A i \in 1..Len(EntityTypeAt(schemas, e).Properties) :
               WellAttributed(EntityTypeAt(schemas, e).Properties[i])
    /\ call.op = "add_property" =>
           /\ WellAttributed(ret.val)
           /\ "Precision" \in DOMAIN ret.val =>
                  Supplied(call.precision) /\ Supplied(call.scale)
           /\ "MaxLength" \in DOMAIN ret.val =>
                  Supplied(call.max_length) /\ call.max_length # Whole(-1)

\* a decimal property with Precision and Scale was appended
C7_Witness ==
    /\ call.op = "add_property"
    /\ "Precision" \in DOMAIN ret.val
    /\ Len(Target(schemas, call).Properties) > 0
    /\ Target(schemas, call).Properties[Len(Target(schemas, call).Properties)] = ret.val

(***************************************************************************)
(* C8 as claimed: add_property with type Edm.Decimal and with precision    *)
(* and scale both supplied as numbers records Precision and Scale, equal   *)
(* to their integer values.                                                *)
(***************************************************************************)
C8_Original ==
    (/\ call.op = "add_property"
     /\ call.property_type = "Edm.Decimal"
     /\ Supplied(call.precision)
     /\ Supplied(call.scale))
    => /\ "Precision" \in DOMAIN ret.val
       /\ "Scale" \in DOMAIN ret.val
       /\ ret.val.Precision = int(call.precision)
       /\ ret.val.Scale = int(call.scale)

(***************************************************************************)
(* C9 as claimed: a MaxLength is recorded only when the supplied           *)
(* max_length is a positive number, and the recorded value is positive.    *)
(***************************************************************************)
C9_Original ==
    /\ \A e \in AllEntityTypes :
           \A i \in 1..Len(EntityTypeAt(schemas, e).Properties) :
               "MaxLength" \in DOMAIN EntityTypeAt(schemas, e).Properties[i] =>
                   EntityTypeAt(schemas, e).Properties[i].MaxLength > 0
    /\ (call.op = "add_property" /\ "MaxLength" \in DOMAIN ret.val) =>
           /\ Supplied(call.max_length)
           /\ call.max_length.halves > 0
           /\ ret.val.MaxLength > 0

(***************************************************************************)
(* C10 as claimed: when some schema has its Namespace or its Alias equal   *)
(* to the key, get_schema_by_name returns the first such schema.           *)
(***************************************************************************)
Matching(ss, key) ==
    {s \in 1..Len(ss) :
        ss[s].Namespace = key \/ ("Alias" \in DOMAIN ss[s] /\ ss[s].Alias = key)}

C10_Original ==
    (call.op = "get_schema_by_name" /\ Matching(schemas, call.schema_name) # {}) =>
        /\ err = ""
        /\ ret = RetRef(<<CHOOSE s \in Matching(schemas, call.schema_name) :
                              \A u \in Matching(schemas, call.schema_name) : s <= u>>)

(***************************************************************************)
(* C11 as claimed: when no schema has its Namespace or its Alias equal to  *)
(* the key, get_schema_by_name raises; it never completes without          *)
(* returning a matching schema.                                            *)
(***************************************************************************)
C11_Original ==
    (call.op = "get_schema_by_name" /\ Matching(schemas, call.schema_name) = {}) =>
        err = "ValueError"

(***************************************************************************)
(* C12: add_entity_type on a schema that resolves, with a base type given  *)
(* by name: when no entity type already in that schema has the name (the   *)
(* name of the type being added included) it raises KeyError and appends   *)
(* nothing; when one has, the new type is appended with BaseType equal to  *)
(* the name and without Keys.  With no base type the new type is appended  *)
(* with an empty Keys list and without BaseType.                           *)
(***************************************************************************)
\* the call appended one entity type to schema s, returned it, changed nothing else
AppendedEntityType(s) ==
    /\ err' = ""
    /\ Len(schemas'[s].EntityTypes) = Len(schemas[s].EntityTypes) + 1
    /\ ret' = RetRef(<<s, Len(schemas'[s].EntityTypes)>>)
    /\ OnlyGraphChanged(
           [schemas EXCEPT ![s].EntityTypes =
               Append(@, schemas'[s].EntityTypes[Len(schemas'[s].EntityTypes)])])

C12_BaseTypeByName ==
    [][(/\ call'.op = "add_entity_type"
        /\ ~call'.base_type.is_dict
        /\ resolve_schema(schemas, call'.schema).err = ""
        /\ resolve_schema(schemas, call'.schema).ref # 0)
       => LET s == resolve_schema(schemas, call'.schema).ref
              added == schemas'[s].EntityTypes[Len(schemas'[s].EntityTypes)]
          IN IF call'.base_type.Name = ""
             THEN /\ AppendedEntityType(s)
                  /\ added.Name = call'.entity_type_name
                  /\ HasKeys(added) /\ added.Keys = <<>>
                  /\ ~HasBaseType(added)
             ELSE IF call'.base_type.Name \in NamesOf(schemas[s].EntityTypes)
             THEN /\ AppendedEntityType(s)
                  /\ added.Name = call'.entity_type_name
                  /\ HasBaseType(added) /\ added.BaseType = call'.base_type.Name
                  /\ ~HasKeys(added)
             ELSE err' = "KeyError" /\ NothingChanged]_vars

\* the base type named was the type being added, in a schema that holds another
C12_Witness ==
    /\ call.op = "add_entity_type"
    /\ err = "KeyError"
    /\ call.base_type.Name = call.entity_type_name
    /\ resolve_schema(schemas, call.schema).ref # 0
    /\ schemas[resolve_schema(schemas, call.schema).ref].EntityTypes # <<>>

(***************************************************************************)
(* The round trip at work: one schema, entity types with keys, a property  *)
(* or a base type, a container with its entity sets, and the document      *)
(* generated from them.                                                    *)
(***************************************************************************)
RoundTripBounded == Size(schemas') <= MaxRoundTripNodes

NextRoundTrip ==
    \/ schemas = <<>> /\ add_schema("S1", "")
    \/ \E s \in SchemaRefs, a \in {<<"T1", BaseNone>>, <<"T2", BaseStr("T1")>>} :
           add_entity_type(SchemaDict(s), a[1], a[2], "", "") /\ RoundTripBounded
    \/ \E e \in EntityTypeRefs, n \in {"Id", "Code"} :
           add_key(e[1], e[2], n, "Edm.Int32") /\ RoundTripBounded
    \/ \E e \in EntityTypeRefs :
           add_property(e[1], e[2], "Name", "Edm.String", TRUE, None, None, None)
           /\ RoundTripBounded
    \/ \E s \in SchemaRefs : add_entity_container(SchemaDict(s), "C1") /\ RoundTripBounded
    \/ \E r \in ContainerRefs : add_entity_set(r[1], r[2], "ES1", "T1") /\ RoundTripBounded
    \/ generate_metadata

SpecRoundTrip == Init /\ [][NextRoundTrip]_vars

(***************************************************************************)
(* C13 as claimed: building one schema S1, one entity type T1 with the key *)
(* Id (Edm.Int32) and the nullable property Name (Edm.String), one         *)
(* container C1 and one entity set ES1 bound to T1 completes without       *)
(* error, and generate_metadata then returns a document with, in this      *)
(* order, the Schema tag of S1, the EntityType tag of T1, the Key block    *)
(* with PropertyRef Id, the Property line of Name, the EntityType close,   *)
(* the EntityContainer tag of C1, the EntitySet line of ES1 and T1 and the *)
(* closing tags of EntityContainer, Schema, DataServices and Edmx.         *)
(***************************************************************************)
\* the graph the scenario builds
RoundTripGraph ==
    <<[Namespace |-> "S1",
       EntityTypes |->
           <<[Name |-> "T1", Keys |-> <<"Id">>, Documentation |-> <<>>,
              Properties |->
                  <<[Name |-> "Name", Type |-> "Edm.String", Nullable |-> TRUE]>>]>>,
       EntityContainers |->
           <<[Name |-> "C1",
              EntitySets |-> <<[Name |-> "ES1", EntityType |-> "T1"]>>]>>]>>

\* the pieces the document has to hold, in their order
RoundTripPieces ==
    <<[tag |-> "Schema", Namespace |-> "S1"],
      [tag |-> "EntityType", Name |-> "T1"],
      [tag |-> "Key"],
      [tag |-> "PropertyRef", Name |-> "Id"],
      [tag |-> "/Key"],
      [tag |-> "Property", Name |-> "Name", Type |-> "Edm.String", Nullable |-> "true"],
      [tag |-> "/EntityType"],
      [tag |-> "EntityContainer", Name |-> "C1"],
      [tag |-> "EntitySet/", Name |-> "ES1", EntityType |-> "T1"],
      [tag |-> "/EntityContainer"],
      [tag |-> "/Schema"],
      [tag |-> "/edmx:DataServices"],
      [tag |-> "/edmx:Edmx"]>>

\* the pieces occur in the document in their order
RECURSIVE HoldsInOrder(_, _)
HoldsInOrder(document, pieces) ==
    IF pieces = <<>> THEN TRUE
    ELSE IF document = <<>> THEN FALSE
    ELSE IF Head(document) = Head(pieces)
         THEN HoldsInOrder(Tail(document), Tail(pieces))
         ELSE HoldsInOrder(Tail(document), pieces)

C13_Original ==
    /\ (call.op \in {"add_schema", "add_entity_type", "add_key", "add_property",
                     "add_entity_container", "add_entity_set"}
        /\ schemas = RoundTripGraph) => err = ""
    /\ (call.op = "generate_metadata" /\ schemas = RoundTripGraph) =>
           HoldsInOrder(ret.text, RoundTripPieces)

(***************************************************************************)
(* C14: in the document generate_metadata returns, the element of every    *)
(* entity type with a BaseType B opens with BaseType="Self.B" and holds no *)
(* Key block; a Key block is written only in the element of a type without *)
(* a BaseType, and it holds one PropertyRef per key name, in Keys order.   *)
(***************************************************************************)
\* the k-th smallest number of a set
Nth(S, k) == CHOOSE x \in S : Cardinality({y \in S : y < x}) = k - 1

\* where the pieces with that tag stand in the document
PlacesOf(document, tag) == {i \in 1..Len(document) : document[i].tag = tag}

\* the k-th EntityType element of the document, from its open tag to its close
EntityTypeElement(document, k) ==
    SubSeq(document, Nth(PlacesOf(document, "EntityType"), k),
           Nth(PlacesOf(document, "/EntityType"), k))

\* the place of an entity type among the entity types of the graph, in document order
RankOf(e) ==
    1 + Cardinality({f \in AllEntityTypes :
                         f[1] < e[1] \/ (f[1] = e[1] /\ f[2] < e[2])})

\* the names of the PropertyRef pieces of an element, in their order
PropertyRefNames(element) ==
    LET refs == SelectSeq(element, LAMBDA piece : piece.tag = "PropertyRef")
    IN [i \in 1..Len(refs) |-> refs[i].Name]

C14_BaseTypeAndKeyBlock ==
    call.op = "generate_metadata" =>
        /\ Cardinality(PlacesOf(ret.text, "EntityType")) = Cardinality(AllEntityTypes)
        /\ Cardinality(PlacesOf(ret.text, "/EntityType")) = Cardinality(AllEntityTypes)
        /\ \A e \in AllEntityTypes :
               LET entity_type == EntityTypeAt(schemas, e)
                   element == EntityTypeElement(ret.text, RankOf(e))
               IN /\ element[1].Name = entity_type.Name
                  /\ IF HasBaseType(entity_type)
                     THEN /\ "BaseType" \in DOMAIN element[1]
                          /\ element[1].BaseType = <<"Self.", entity_type.BaseType>>
                          /\ \A i \in 1..Len(element) :
                                 element[i].tag \notin {"Key", "PropertyRef", "/Key"}
                     ELSE /\ "BaseType" \notin DOMAIN element[1]
                          /\ PropertyRefNames(element) = KeysOf(entity_type)
                          /\ \A i \in 1..Len(element) :
                                 element[i].tag \in {"Key", "/Key"} =>
                                     Len(KeysOf(entity_type)) > 0

\* a document was generated of a type with two different keys and a type with a base type
C14_Witness ==
    /\ call.op = "generate_metadata"
    /\ \E e \in AllEntityTypes : HasBaseType(EntityTypeAt(schemas, e))
    /\ \E e \in AllEntityTypes :
           /\ Len(KeysOf(EntityTypeAt(schemas, e))) = 2
           /\ EntityTypeAt(schemas, e).Keys[1] # EntityTypeAt(schemas, e).Keys[2]

(***************************************************************************)
(* C15 as claimed: add_entity_set succeeds for any container and any two   *)
(* names, whether or not an entity type was added before: it appends one   *)
(* entity set at the end of the EntitySets of the container, changes       *)
(* nothing else, and returns that set, with Name the set name and          *)
(* EntityType the entity type name.                                        *)
(***************************************************************************)
C15_Original ==
    [][call'.op = "add_entity_set" =>
        LET sets == schemas'[call'.s].EntityContainers[call'.k].EntitySets
        IN /\ err' = ""
           /\ ret' = RetRef(<<call'.s, call'.k, Len(sets)>>)
           /\ sets[Len(sets)].Name = call'.entity_set_name
           /\ sets[Len(sets)].EntityType = call'.entity_type_name
           /\ OnlyGraphChanged(
                  [schemas EXCEPT ![call'.s].EntityContainers[call'.k].EntitySets =
                      Append(@, sets[Len(sets)])])]_vars

(***************************************************************************)
(* Entity sets at work: schemas, entity types, their navigation            *)
(* properties, containers and entity sets, in a graph large enough for a   *)
(* navigation property to be added after the entity set of its type.  The  *)
(* caller gives each schema a name of its own, one entity type of a name    *)
(* and one container, and each container one entity set of a name.         *)
(***************************************************************************)
EntitySetBounded == Size(schemas') <= MaxEntitySetNodes

NextEntitySet ==
    \/ \E a \in SchemaArgs :
           /\ \A s \in SchemaRefs : schemas[s].Namespace # a[1]
           /\ add_schema(a[1], a[2])
           /\ EntitySetBounded
    \/ \E s \in SchemaRefs, n \in {"T1", "T2"} :
           /\ n \notin NamesOf(schemas[s].EntityTypes)
           /\ add_entity_type(SchemaDict(s), n, BaseNone, "", "")
           /\ EntitySetBounded
    \/ \E e \in EntityTypeRefs, a \in NavigationArgs :
           add_navigation_property(e[1], e[2], a[1], a[2], a[3], a[4])
           /\ EntitySetBounded
    \/ \E s \in SchemaRefs :
           /\ schemas[s].EntityContainers = <<>>
           /\ add_entity_container(SchemaDict(s), "C1")
           /\ EntitySetBounded
    \/ \E r \in ContainerRefs, a \in EntitySetArgs :
           /\ a[1] \notin NamesOf(schemas[r[1]].EntityContainers[r[2]].EntitySets)
           /\ add_entity_set(r[1], r[2], a[1], a[2])
           /\ EntitySetBounded

SpecEntitySet == Init /\ [][NextEntitySet]_vars

(***************************************************************************)
(* C16: an entity set is created with one (Path = Type, Target = Name)     *)
(* binding per navigation property, in order, that the entity type named   *)
(* as the set has in the first schema at that moment, and no later step,   *)
(* adding a navigation property to that type included, changes the         *)
(* bindings of an entity set; so in every reachable state the bindings of  *)
(* each entity set are those of the moment it was created.                 *)
(***************************************************************************)
\* every entity set of the graph ss, as <<schema, container, entity set>>
AllEntitySets(ss) ==
    UNION {UNION {{<<s, k, i>> : i \in 1..Len(ss[s].EntityContainers[k].EntitySets)} :
                     k \in 1..Len(ss[s].EntityContainers)} : s \in 1..Len(ss)}

EntitySetAt(ss, r) == ss[r[1]].EntityContainers[r[2]].EntitySets[r[3]]

\* the bindings an entity set holds, none when it has no list of them
BindingsOf(entity_set) ==
    IF "NavigationPropertyBinding" \in DOMAIN entity_set
    THEN entity_set.NavigationPropertyBinding
    ELSE <<>>

\* one (Path = Type, Target = Name) pair per navigation property, in order
PairsOf(navigation_properties) ==
    [i \in 1..Len(navigation_properties) |->
        [Path |-> navigation_properties[i].Type,
         Target |-> navigation_properties[i].Name]]

\* the first entity types of the first schema of ss that have the name, if any
NamedInFirstSchema(ss, name) ==
    {t \in 1..Len(ss[1].EntityTypes) :
        /\ ss[1].EntityTypes[t].Name = name
        /\ \A u \in 1..(t - 1) : ss[1].EntityTypes[u].Name # name}

C16_BindingsSnapshot ==
    [][/\ call'.op = "add_entity_set" =>
              LET sets == schemas'[call'.s].EntityContainers[call'.k].EntitySets
              IN /\ Len(sets) =
                        Len(schemas[call'.s].EntityContainers[call'.k].EntitySets) + 1
                 /\ \A t \in NamedInFirstSchema(schemas, call'.entity_set_name) :
                        BindingsOf(sets[Len(sets)]) =
                            PairsOf(NavigationPropertiesOf(schemas[1].EntityTypes[t]))
       /\ \A r \in AllEntitySets(schemas) :
              /\ r \in AllEntitySets(schemas')
              /\ BindingsOf(EntitySetAt(schemas', r)) = BindingsOf(EntitySetAt(schemas, r))
      ]_vars

\* a navigation property was added to a type after the entity set of its name was bound
C16_Witness ==
    /\ call.op = "add_navigation_property"
    /\ err = ""
    /\ call.s = 1
    /\ \E r \in AllEntitySets(schemas) :
           /\ EntitySetAt(schemas, r).Name = Target(schemas, call).Name
           /\ NamedInFirstSchema(schemas, EntitySetAt(schemas, r).Name) = {call.t}
           /\ Len(BindingsOf(EntitySetAt(schemas, r))) = 1
           /\ Len(Target(schemas, call).NavigationProperties) = 2

(***************************************************************************)
(* C17 as claimed: convert_to_odata never raises and never changes the     *)
(* converter; for any table of the converter's client it returns the value *)
(* of the key that equals the data type with letter case ignored, when the *)
(* table has such a key, and "Edm.String" when it has none.                *)
(***************************************************************************)
\* the keys of the table that equal the name, letter case ignored
KeysIgnoringCase(table, name) == {key \in DOMAIN table : lower(key) = lower(name)}

C17_Original ==
    [][call'.op = "convert_to_odata" =>
        /\ err' = ""
        /\ converter' = converter
        /\ template' = template
        /\ IF KeysIgnoringCase(converter.json_data, call'.data_type) # {}
           THEN \E key \in KeysIgnoringCase(converter.json_data, call'.data_type) :
                    ret' = RetName(converter.json_data[key])
           ELSE ret' = RetName("Edm.String")]_vars

(***************************************************************************)
(* C18: constructing an OdataConverter raises ValueError, and leaves the   *)
(* caller without a new converter, exactly when the client name, with its  *)
(* whitespace removed and its letters lowered, is no key of the template;  *)
(* otherwise it succeeds and the converter keeps the table of that one key *)
(* of the template, which every later conversion is looked up in.          *)
(***************************************************************************)
\* the text without its whitespace, in lower case
Squeezed(text) == lower(SelectSeq(text, LAMBDA ch : ch \notin {" ", "\t", "\n"}))

C18_ClientSelectsTable ==
    [][/\ call'.op = "OdataConverter" =>
              IF Squeezed(call'.database_client) \in DOMAIN template
              THEN /\ err' = ""
                   /\ converter'.constructed
                   /\ converter'.database_client = Squeezed(call'.database_client)
                   /\ converter'.json_data = template[Squeezed(call'.database_client)]
              ELSE err' = "ValueError" /\ converter' = converter
       /\ call'.op = "convert_to_odata" =>
              /\ converter.constructed
              /\ converter.json_data = template[converter.database_client]
              /\ ret'.name \in {converter.json_data[key] : key \in DOMAIN converter.json_data}
                                \cup {"Edm.String"}
       /\ template' = template]_vars

\* a client name with upper case and whitespace selected its table among two different ones
C18_Witness ==
    /\ call.op = "OdataConverter"
    /\ err = ""
    /\ call.database_client # converter.database_client
    /\ \E ch \in whitespace : \E i \in DOMAIN call.database_client :
           call.database_client[i] = ch
    /\ \E other \in DOMAIN template :
           template[other] # template[converter.database_client]

(***************************************************************************)
(* C19 as claimed: after clear the builder is as it was constructed, with  *)
(* no schema, the empty metadata text and the namespace and service name   *)
(* it was constructed with.                                                *)
(***************************************************************************)
C19_Original ==
    call.op = "clear" =>
        /\ schemas = <<>>
        /\ metadata = <<>>
        /\ namespace = "NS"
        /\ service_name = "Service"

(***************************************************************************)
(* C19 as amended: after clear the builder has no schema, the empty        *)
(* metadata text and the empty namespace and service name, whatever it was *)
(* constructed with; generate_metadata on it returns the document of a     *)
(* builder without schemas, as after construction.                         *)
(***************************************************************************)
\* the document of a builder that has no schema
DocumentWithoutSchemas ==
    <<[tag |-> "?xml"], [tag |-> "edmx:Edmx"], [tag |-> "edmx:DataServices"],
      [tag |-> "/edmx:DataServices"], [tag |-> "/edmx:Edmx"]>>

C19_ClearEmpties ==
    /\ call.op = "clear" =>
           /\ err = ""
           /\ schemas = <<>>
           /\ metadata = <<>>
           /\ namespace = ""
           /\ service_name = ""
    /\ (call.op = "generate_metadata" /\ schemas = <<>>) =>
           ret.text = DocumentWithoutSchemas

\* the document was generated on a cleared builder
C19_Witness ==
    /\ call.op = "generate_metadata"
    /\ schemas = <<>>
    /\ namespace = ""
    /\ metadata = DocumentWithoutSchemas

(***************************************************************************)
(* C20: generate_metadata leaves the schemas, with their entity types,     *)
(* containers and entity sets, the namespace and the service name as they  *)
(* are; it stores the text it returns as the metadata; called again with   *)
(* no other call in between it returns the same text.                      *)
(***************************************************************************)
C20_PureRead ==
    [][call'.op = "generate_metadata" =>
        /\ err' = ""
        /\ ret'.kind = "str"
        /\ UNCHANGED <<namespace, service_name, schemas, template, converter>>
        /\ metadata' = ret'.text
        /\ call.op = "generate_metadata" => ret'.text = ret.text]_vars

\* the document of a graph with an entity type replaced an older text
C20_Witness ==
    /\ call.op = "generate_metadata"
    /\ metadata = ret.text
    /\ \E e \in AllEntityTypes : Len(EntityTypeAt(schemas, e).Properties) > 0
    /\ Len(metadata) > Len(DocumentWithoutSchemas)

(***************************************************************************)
(* C21 as claimed: a successful add_navigation_property appends one record *)
(* to the NavigationProperties of the entity type, with Name and Type the  *)
(* name of the referenced type, Partner the name of the owning type, the   *)
(* given nullability, property name and referenced column, and Schema the  *)
(* Namespace of the schema that holds the type the name resolved to.       *)
(***************************************************************************)
C21_Original ==
    [][(call'.op = "add_navigation_property" /\ err' = "") =>
        LET r == resolve_referenced_entity(schemas, call'.referenced_entity)
            record == [Schema |-> schemas[r[1]].Namespace,
                       Name |-> schemas[r[1]].EntityTypes[r[2]].Name,
                       Type |-> schemas[r[1]].EntityTypes[r[2]].Name,
                       Partner |-> Target(schemas, call').Name,
                       Nullable |-> call'.is_nullable,
                       Property |-> call'.property_name,
                       ReferencedProperty |-> call'.referenced_col]
        IN /\ r[1] # 0
           /\ OnlyGraphChanged(
                  [schemas EXCEPT ![call'.s].EntityTypes[call'.t] =
                      SetItem(@, "NavigationProperties",
                              Append(NavigationPropertiesOf(@), record))])]_vars

(***************************************************************************)
(* C22 as claimed: in every reachable state no two properties, no two      *)
(* navigation properties, and no property and navigation property of one   *)
(* entity type have the same name.                                         *)
(***************************************************************************)
\* no two members of the list of dicts have the same Name
NamesDiffer(dicts) ==
    \A i, j \in 1..Len(dicts) : i # j => dicts[i].Name # dicts[j].Name

C22_Original ==
    \A e \in AllEntityTypes :
        NamesDiffer(EntityTypeAt(schemas, e).Properties
                    \o [i \in 1..Len(NavigationPropertiesOf(EntityTypeAt(schemas, e))) |->
                           [Name |-> EntityTypeAt(schemas, e).NavigationProperties[i].Name]])

(***************************************************************************)
(* C23 as claimed: in every reachable state the Keys of an entity type     *)
(* hold no property name twice.                                            *)
(***************************************************************************)
C23_Original ==
    \A e \in AllEntityTypes :
        \A i, j \in 1..Len(KeysOf(EntityTypeAt(schemas, e))) :
            i # j => EntityTypeAt(schemas, e).Keys[i] # EntityTypeAt(schemas, e).Keys[j]

(***************************************************************************)
(* C27 as claimed: when add_entity_set raises because the first schema has *)
(* no entity type of the name looked up, the EntitySets of the container   *)
(* and the rest of the model are as before the call.                       *)
(***************************************************************************)
C27_Original ==
    [][(call'.op = "add_entity_set" /\ err' = "KeyError") => NothingChanged]_vars

(***************************************************************************)
(* C30 as claimed: whenever the referenced name resolves, the schemas      *)
(* scanned in order, to an entity type other than the one the navigation   *)
(* property is added to, be it a type of another schema with the name of   *)
(* the owner, add_navigation_property succeeds and records the navigation  *)
(* property.                                                               *)
(***************************************************************************)
C30_Original ==
    [][(/\ call'.op = "add_navigation_property"
        /\ resolve_referenced_entity(schemas, call'.referenced_entity) # <<0, 0>>
        /\ resolve_referenced_entity(schemas, call'.referenced_entity)
               # <<call'.s, call'.t>>)
       => /\ err' = ""
          /\ Len(NavigationPropertiesOf(Target(schemas', call')))
                 = Len(NavigationPropertiesOf(Target(schemas, call'))) + 1]_vars

(***************************************************************************)
(* Base types at work: schemas and entity types whose base type, if any,   *)
(* is given by name.                                                       *)
(***************************************************************************)
BaseTypeBounded == Size(schemas') <= MaxBaseTypeNodes

NextBaseType ==
    \/ \E a \in SchemaArgs : add_schema(a[1], a[2]) /\ BaseTypeBounded
    \/ \E sch \in SchemaArguments, a \in EntityTypeArgs :
           add_entity_type(sch, a[1], a[2], a[3], a[4]) /\ BaseTypeBounded

SpecBaseType == Init /\ [][NextBaseType]_vars

(***************************************************************************)
(* C24 as claimed: when every base type is given by name, following the    *)
(* BaseType names within a schema from an entity type never leads back to  *)
(* the name of that type; no entity type has its own Name as BaseType.     *)
(***************************************************************************)
\* the BaseType names of the entity types of the schema that bear one of the names
BaseNamesOf(schema, names) ==
    {schema.EntityTypes[t].BaseType :
        t \in {u \in 1..Len(schema.EntityTypes) :
                  /\ schema.EntityTypes[u].Name \in names
                  /\ HasBaseType(schema.EntityTypes[u])}}

\* the names reached from the names in at most n steps along BaseType
RECURSIVE ReachedFrom(_, _, _)
ReachedFrom(schema, names, n) ==
    IF n = 0 THEN names
    ELSE ReachedFrom(schema, names \cup BaseNamesOf(schema, names), n - 1)

C24_Original ==
    \A e \in AllEntityTypes :
        HasBaseType(EntityTypeAt(schemas, e)) =>
            EntityTypeAt(schemas, e).Name
                \notin ReachedFrom(schemas[e[1]], {EntityTypeAt(schemas, e).BaseType},
                                   Len(schemas[e[1]].EntityTypes))

(***************************************************************************)
(* The document at work: every operation that adds to the graph,           *)
(* generate_metadata and clear.  The caller builds in the order of         *)
(* create_model: the schemas, then the entity types, their keys, their     *)
(* properties and their navigation properties, then the containers and     *)
(* their entity sets, then the document; after clear it starts again.  It  *)
(* gives each schema a name of its own, one entity type of a name and one  *)
(* container, and each container one entity set of a name.                 *)
(***************************************************************************)
DocumentBounded == Size(schemas') <= MaxDocumentNodes

DocumentedEntityTypeArgs ==
    {<<"T1", BaseNone, "Sum", "Long">>, <<"T2", BaseNone, "", "">>}
DocumentedPropertyArgs ==
    {<<"Id", "Edm.Int32", FALSE, None, None, None>>,
     <<"Name", "Edm.String", TRUE, Whole(10), None, None>>}

\* the place of an operation in the order the caller builds in
BuildOrder ==
    <<"add_schema", "add_entity_type", "add_key", "add_property",
      "add_navigation_property", "add_entity_container", "add_entity_set",
      "generate_metadata">>

PlaceInBuildOrder(op) ==
    IF \E i \in DOMAIN BuildOrder : BuildOrder[i] = op
    THEN CHOOSE i \in DOMAIN BuildOrder : BuildOrder[i] = op
    ELSE 0

\* the operation may come after the last call
InBuildOrder(op) == PlaceInBuildOrder(call.op) <= PlaceInBuildOrder(op)

NextDocument ==
    \/ \E a \in SchemaArgs :
           /\ InBuildOrder("add_schema")
           /\ \A s \in SchemaRefs : schemas[s].Namespace # a[1]
           /\ add_schema(a[1], a[2])
           /\ DocumentBounded
    \/ \E s \in SchemaRefs, a \in DocumentedEntityTypeArgs :
           /\ InBuildOrder("add_entity_type")
           /\ a[1] \notin NamesOf(schemas[s].EntityTypes)
           /\ add_entity_type(SchemaDict(s), a[1], a[2], a[3], a[4])
           /\ DocumentBounded
    \/ \E e \in EntityTypeRefs, n \in {"Id", "Code"} :
           /\ InBuildOrder("add_key")
           /\ add_key(e[1], e[2], n, "Edm.Int32")
           /\ DocumentBounded
    \/ \E e \in EntityTypeRefs, a \in DocumentedPropertyArgs :
           /\ InBuildOrder("add_property")
           /\ add_property(e[1], e[2], a[1], a[2], a[3], a[4], a[5], a[6])
           /\ DocumentBounded
    \/ \E e \in EntityTypeRefs, a \in NavigationArgs :
           /\ InBuildOrder("add_navigation_property")
           /\ add_navigation_property(e[1], e[2], a[1], a[2], a[3], a[4])
           /\ DocumentBounded
    \/ \E s \in SchemaRefs :
           /\ InBuildOrder("add_entity_container")
           /\ schemas[s].EntityContainers = <<>>
           /\ add_entity_container(SchemaDict(s), "C1")
           /\ DocumentBounded
    \/ \E r \in ContainerRefs, a \in EntitySetArgs :
           /\ InBuildOrder("add_entity_set")
           /\ a[1] \notin NamesOf(schemas[r[1]].EntityContainers[r[2]].EntitySets)
           /\ add_entity_set(r[1], r[2], a[1], a[2])
           /\ DocumentBounded
    \/ InBuildOrder("generate_metadata") /\ generate_metadata
    \/ clear

SpecDocument == Init /\ [][NextDocument]_vars

(***************************************************************************)
(* C25: the document generate_metadata returns holds the schemas in the    *)
(* order they were added; in each schema its entity types in their order,  *)
(* then its containers in their order; in each entity type the             *)
(* Documentation block, if a field of it was given, then the Key block,    *)
(* then the properties in their order, then the navigation properties in   *)
(* their order; in each container its entity sets in their order, each     *)
(* followed by its bindings; each of them once.                            *)
(***************************************************************************)
\* the pieces of the document with one of the tags, in their order
PiecesOf(document, tags) == SelectSeq(document, LAMBDA piece : piece.tag \in tags)

\* the k-th element of the document between the tags open and close
ElementOf(document, open, close, k) ==
    SubSeq(document, Nth(PlacesOf(document, open), k),
           Nth(PlacesOf(document, close), k))

\* every container of the graph, as <<schema, container>>
AllContainers ==
    UNION {{<<s, k>> : k \in 1..Len(schemas[s].EntityContainers)} : s \in 1..Len(schemas)}

\* the place of a container among the containers of the graph, in document order
ContainerRankOf(r) ==
    1 + Cardinality({f \in AllContainers :
                         f[1] < r[1] \/ (f[1] = r[1] /\ f[2] < r[2])})

\* the part of an entity type element a piece belongs to
PartOf(tag) ==
    CASE tag = "EntityType" -> 0
      [] tag \in {"Documentation", "Summary", "LongDescription", "/Documentation"} -> 1
      [] tag \in {"Key", "PropertyRef", "/Key"} -> 2
      [] tag = "Property" -> 3
      [] tag \in {"NavigationProperty", "ReferentialConstraint",
                  "/NavigationProperty"} -> 4
      [] OTHER -> 5

\* the entity type element holds the parts of the entity type, in their order
EntityTypeInOrder(element, entity_type) ==
    /\ \A i, j \in 1..Len(element) :
           i < j => PartOf(element[i].tag) <= PartOf(element[j].tag)
    /\ Len(PiecesOf(element, {"Documentation"}))
           = (IF DOMAIN entity_type.Documentation = {} THEN 0 ELSE 1)
    /\ [i \in 1..Len(PiecesOf(element, {"Summary", "LongDescription"})) |->
           PiecesOf(element, {"Summary", "LongDescription"})[i].text]
           = (IF "Summary" \in DOMAIN entity_type.Documentation
              THEN <<entity_type.Documentation.Summary>> ELSE <<>>)
             \o (IF "LongDescription" \in DOMAIN entity_type.Documentation
                 THEN <<entity_type.Documentation.LongDescription>> ELSE <<>>)
    /\ PropertyRefNames(element) = KeysOf(entity_type)
    /\ Len(PiecesOf(element, {"Key"})) = (IF KeysOf(entity_type) = <<>> THEN 0 ELSE 1)
    /\ [i \in 1..Len(PiecesOf(element, {"Property"})) |->
           PiecesOf(element, {"Property"})[i].Name]
           = [i \in 1..Len(entity_type.Properties) |-> entity_type.Properties[i].Name]
    /\ [i \in 1..Len(PiecesOf(element, {"NavigationProperty"})) |->
           PiecesOf(element, {"NavigationProperty"})[i].Name]
           = [i \in 1..Len(NavigationPropertiesOf(entity_type)) |->
                 entity_type.NavigationProperties[i].Name]
    /\ [i \in 1..Len(PiecesOf(element, {"ReferentialConstraint"})) |->
           PiecesOf(element, {"ReferentialConstraint"})[i].Property]
           = [i \in 1..Len(NavigationPropertiesOf(entity_type)) |->
                 entity_type.NavigationProperties[i].Property]

\* a piece of a container element without its tag: an entity set or a binding
Untagged(piece) ==
    IF piece.tag = "NavigationPropertyBinding"
    THEN [Path |-> piece.Path, Target |-> piece.Target]
    ELSE [Name |-> piece.Name, EntityType |-> piece.EntityType]

\* the container element holds the entity sets in their order, each before its bindings
ContainerInOrder(element, entity_container) ==
    LET pieces == PiecesOf(element, {"EntitySet", "EntitySet/",
                                     "NavigationPropertyBinding"})
    IN [i \in 1..Len(pieces) |-> Untagged(pieces[i])]
           = Flatten([i \in 1..Len(entity_container.EntitySets) |->
                 <<[Name |-> entity_container.EntitySets[i].Name,
                    EntityType |-> entity_container.EntitySets[i].EntityType]>>
                 \o BindingsOf(entity_container.EntitySets[i])])

\* the schema element holds the entity types, then the containers, in their order
SchemaInOrder(element, schema) ==
    /\ [i \in 1..Len(PiecesOf(element, {"EntityType"})) |->
           PiecesOf(element, {"EntityType"})[i].Name]
           = [t \in 1..Len(schema.EntityTypes) |-> schema.EntityTypes[t].Name]
    /\ [i \in 1..Len(PiecesOf(element, {"EntityContainer"})) |->
           PiecesOf(element, {"EntityContainer"})[i].Name]
           = [k \in 1..Len(schema.EntityContainers) |-> schema.EntityContainers[k].Name]
    /\ \A i \in PlacesOf(element, "/EntityType") :
           \A j \in PlacesOf(element, "EntityContainer") : i < j

C25_DocumentOrder ==
    call.op = "generate_metadata" =>
        /\ [i \in 1..Len(PiecesOf(ret.text, {"Schema"})) |->
               PiecesOf(ret.text, {"Schema"})[i].Namespace]
               = [s \in 1..Len(schemas) |-> schemas[s].Namespace]
        /\ Len(PiecesOf(ret.text, {"/Schema"})) = Len(schemas)
        /\ \A s \in 1..Len(schemas) :
               SchemaInOrder(ElementOf(ret.text, "Schema", "/Schema", s), schemas[s])
        /\ \A e \in AllEntityTypes :
               EntityTypeInOrder(EntityTypeElement(ret.text, RankOf(e)),
                                 EntityTypeAt(schemas, e))
        /\ \A r \in AllContainers :
               ContainerInOrder(
                   ElementOf(ret.text, "EntityContainer", "/EntityContainer",
                             ContainerRankOf(r)),
                   schemas[r[1]].EntityContainers[r[2]])

\* a document of a type with documentation, a key, a property and a navigation property
C25_Witness ==
    /\ call.op = "generate_metadata"
    /\ \E e \in AllEntityTypes :
           /\ DOMAIN EntityTypeAt(schemas, e).Documentation # {}
           /\ KeysOf(EntityTypeAt(schemas, e)) # <<>>
           /\ EntityTypeAt(schemas, e).Properties # <<>>
           /\ NavigationPropertiesOf(EntityTypeAt(schemas, e)) # <<>>

(***************************************************************************)
(* C26: no step other than clear deletes or reorders: the list of schemas, *)
(* the entity types and containers of each schema, the Keys, Properties    *)
(* and NavigationProperties of each entity type and the entity sets of     *)
(* each container before the step are prefixes of those after it, and the  *)
(* fields of the records already there are unchanged.                      *)
(***************************************************************************)
IsPrefix(before, after) ==
    /\ Len(before) <= Len(after)
    /\ SubSeq(after, 1, Len(before)) = before

\* the fields of a dict other than the lists it owns are unchanged
SameFields(before, after, lists) ==
    /\ DOMAIN before \ lists \subseteq DOMAIN after
    /\ DOMAIN after \ lists = DOMAIN before \ lists
    /\ \A f \in DOMAIN before \ lists : after[f] = before[f]

EntityTypeGrew(before, after) ==
    /\ SameFields(before, after, {"Keys", "Properties", "NavigationProperties"})
    /\ HasKeys(before) <=> HasKeys(after)
    /\ IsPrefix(KeysOf(before), KeysOf(after))
    /\ IsPrefix(before.Properties, after.Properties)
    /\ IsPrefix(NavigationPropertiesOf(before), NavigationPropertiesOf(after))

ContainerGrew(before, after) ==
    /\ SameFields(before, after, {"EntitySets"})
    /\ IsPrefix(before.EntitySets, after.EntitySets)

SchemaGrew(before, after) ==
    /\ SameFields(before, after, {"EntityTypes", "EntityContainers"})
    /\ Len(before.EntityTypes) <= Len(after.EntityTypes)
    /\ \A t \in 1..Len(before.EntityTypes) :
           EntityTypeGrew(before.EntityTypes[t], after.EntityTypes[t])
    /\ Len(before.EntityContainers) <= Len(after.EntityContainers)
    /\ \A k \in 1..Len(before.EntityContainers) :
           ContainerGrew(before.EntityContainers[k], after.EntityContainers[k])

C26_OnlyClearDeletes ==
    [][call'.op # "clear" =>
        /\ Len(schemas) <= Len(schemas')
        /\ \A s \in 1..Len(schemas) : SchemaGrew(schemas[s], schemas'[s])]_vars

\* a second navigation property was added after the first, beside a property
C26_Witness ==
    /\ call.op = "add_navigation_property"
    /\ err = ""
    /\ Len(Target(schemas, call).NavigationProperties) = 2
    /\ Target(schemas, call).Properties # <<>>

(***************************************************************************)
(* create_model.py: create_model_from_table_info drives the builder once   *)
(* per table and column.  A run is the graph the builder holds so far and  *)
(* the exception raised so far; a call made after an exception does not    *)
(* happen, and the graph keeps what the calls before it have written.      *)
(***************************************************************************)
Run(ss, e) == [schemas |-> ss, err |-> e]

RetBuilder == [kind |-> "builder"]

\* f"{namespace_name}.{table}"
QualifiedName(namespace_name, table) == <<namespace_name, ".", table>>

\* OdataConverter.convert_to_odata(data_type), on the converter of the module
OdataConverter_convert_to_odata(data_type) ==
    get(converter.json_data, lower(data_type), "Edm.String")

\* entity_type = builder.add_entity_type(schema, table): the schema is a dict
builder_add_entity_type(run, s, table) ==
    IF run.err # "" THEN run
    ELSE Run([run.schemas EXCEPT ![s].EntityTypes =
                  Append(@, new_entity_type(table, "", "", ""))], "")

\* builder.add_key(entity_type, pk, property_type)
builder_add_key(run, s, t, property_name, property_type) ==
    IF run.err # "" THEN run
    ELSE IF "BaseType" \in DOMAIN run.schemas[s].EntityTypes[t]
    THEN Run(run.schemas, "ValueError")
    ELSE IF is_primitive(property_type)
    THEN Run([run.schemas EXCEPT ![s].EntityTypes[t].Keys = Append(@, property_name)], "")
    ELSE Run(run.schemas, "ValueError")

\* builder.add_navigation_property(entity_type, foreign_key_col, to_col_fk_ref,
\*                                 to_tbl_fk_ref, is_nullable)
builder_add_navigation_property(run, s, t, property_name, referenced_col, referenced_entity, is_nullable) ==
    LET entity_type == run.schemas[s].EntityTypes[t]
        r == resolve_referenced_entity(run.schemas, referenced_entity)
        referenced == run.schemas[r[1]].EntityTypes[r[2]]
        navigation_property ==
            new_navigation_property(run.schemas, entity_type, referenced, property_name,
                                    referenced_col, is_nullable)
    IN IF run.err # "" THEN run
       \* referenced_entity is still a str: referenced_entity["Name"]
       ELSE IF r[1] = 0 THEN Run(run.schemas, "TypeError")
       ELSE IF points_to_itself(referenced, entity_type)
       THEN Run(run.schemas, "ValueError")
       ELSE Run([run.schemas EXCEPT ![s].EntityTypes[t] =
                     SetItem(@, "NavigationProperties",
                             Append(NavigationPropertiesOf(@), navigation_property))], "")

\* builder.add_property(entity_type, column, property_type, is_nullable,
\*                      max_length, precision, scale)
builder_add_property(run, s, t, property_name, property_type, nullable, max_length, precision, scale) ==
    LET entity_type == run.schemas[s].EntityTypes[t]
        prop == new_property(property_name, property_type, nullable,
                             max_length, precision, scale)
    IN IF run.err # "" THEN run
       ELSE IF name_is_new(entity_type, property_name)
       THEN Run([run.schemas EXCEPT ![s].EntityTypes[t].Properties = Append(@, prop)], "")
       ELSE run

\* builder.add_entity_set(container, table, f"{namespace_name}.{table}")
builder_add_entity_set(run, s, k, entity_set_name, entity_type_name) ==
    LET entity_set == [Name |-> entity_set_name, EntityType |-> entity_type_name]
        r == get_entity_type_by_name(run.schemas[1], entity_set_name)
        entity_type == run.schemas[1].EntityTypes[r.ref]
    IN IF run.err # "" THEN run
       ELSE IF r.err # ""
       THEN Run([run.schemas EXCEPT ![s].EntityContainers[k].EntitySets =
                     Append(@, entity_set)], r.err)
       ELSE Run([run.schemas EXCEPT ![s].EntityContainers[k].EntitySets =
                     Append(@, IF "NavigationProperties" \in DOMAIN entity_type
                               THEN SetItem(entity_set, "NavigationPropertyBinding",
                                            navigation_property_bindings(entity_type))
                               ELSE entity_set)], "")

\* builder.validate_entity_type(entity_type)
builder_validate_entity_type(run, s, t) ==
    IF run.err # "" THEN run
    ELSE IF breaks_rule_1(run.schemas[s].EntityTypes[t])
    THEN Run(run.schemas, "ValueError")
    ELSE run

\* for pk in primary_key: if pk and not is_nullable: builder.add_key(...)
RECURSIVE primary_key_loop(_, _, _, _, _, _)
primary_key_loop(run, s, t, primary_key, is_nullable, data_type) ==
    IF primary_key = <<>> THEN run
    ELSE LET pk == Head(primary_key)
             keyed == IF pk # "" /\ ~is_nullable
                      THEN builder_add_key(run, s, t, pk,
                                           OdataConverter_convert_to_odata(data_type))
                      ELSE run
         IN primary_key_loop(keyed, s, t, Tail(primary_key), is_nullable, data_type)

\* the body of the loop over the columns of a table
column_body(run, s, t, col) ==
    LET keyed == primary_key_loop(run, s, t, col.primary_key, col.is_nullable,
                                  col.data_type)
        navigated == IF col.foreign_key_col # ""
                     THEN builder_add_navigation_property(keyed, s, t,
                              col.foreign_key_col, col.to_col_fk_ref,
                              col.to_tbl_fk_ref, col.is_nullable)
                     ELSE keyed
    IN builder_add_property(navigated, s, t, col.column,
                            OdataConverter_convert_to_odata(col.data_type),
                            col.is_nullable, col.max_length, col.precision, col.scale)

RECURSIVE column_loop(_, _, _, _)
column_loop(run, s, t, columns) ==
    IF columns = <<>> THEN run
    ELSE column_loop(column_body(run, s, t, Head(columns)), s, t, Tail(columns))

\* the body of the loop over the tables: entity_type is the dict just appended
table_body(run, s, k, namespace_name, table, columns) ==
    LET typed == builder_add_entity_type(run, s, table)
        t == Len(typed.schemas[s].EntityTypes)
        filled == column_loop(typed, s, t, columns)
        set == builder_add_entity_set(filled, s, k, table,
                                      QualifiedName(namespace_name, table))
    IN builder_validate_entity_type(set, s, t)

RECURSIVE table_loop(_, _, _, _, _)
table_loop(run, s, k, namespace_name, table_info) ==
    IF table_info = <<>> THEN run
    ELSE table_loop(table_body(run, s, k, namespace_name, Head(table_info).table,
                               Head(table_info).columns),
                    s, k, namespace_name, Tail(table_info))

\* table_info is the dict in the order of its items; schema and container
\* are the dicts at s and at <<s, k>>
create_model_from_table_info(s, k, namespace_name, table_info) ==
    LET c == [op |-> "create_model_from_table_info", s |-> s, k |-> k,
              namespace_name |-> namespace_name, table_info |-> table_info]
        run == table_loop(Run(schemas, ""), s, k, namespace_name, table_info)
    IN /\ converter.constructed
       /\ schemas' = run.schemas
       /\ IF run.err # ""
          THEN Raise(c, run.err) /\ UNCHANGED metadata
          ELSE metadata' = render_metadata(run.schemas) /\ Return(c, RetBuilder)
       /\ UNCHANGED <<namespace, service_name, template, converter>>

(***************************************************************************)
(* The adapter at work, as create_edm_model_from_sql_result sets it up: a  *)
(* converter made when the module is loaded, a builder with one schema and *)
(* one container, and a catalog of at most two tables.  A column is keyed  *)
(* or not, nullable or not, and refers to table A, to table B or to none.  *)
(***************************************************************************)
MaxColumns == 2

AdapterTemplate ==
    [client \in {<<"s", "q", "l">>} |-> [k \in {<<"i", "n", "t">>} |-> "Edm.Int32"]]
AdapterClients == {<<"s", "q", "l">>, <<"S", "Q", " ", "L">>, <<"p", "g">>}

Column(column, data_type, primary_key, is_nullable, foreign_key_col, to_col_fk_ref, to_tbl_fk_ref, max_length) ==
    [column |-> column, data_type |-> data_type, primary_key |-> primary_key,
     is_nullable |-> is_nullable, foreign_key_col |-> foreign_key_col,
     to_col_fk_ref |-> to_col_fk_ref, to_tbl_fk_ref |-> to_tbl_fk_ref,
     max_length |-> max_length, precision |-> None, scale |-> None]

Columns ==
    {Column("Id", <<"i", "n", "t">>, <<"Id">>, FALSE, "", "", "", None),
     Column("Name", <<"t", "e", "x", "t">>, <<>>, TRUE, "", "", "", Whole(10)),
     Column("AId", <<"I", "N", "T">>, <<>>, TRUE, "AId", "Id", "A", None),
     Column("BId", <<"i", "n", "t">>, <<>>, FALSE, "BId", "Id", "B", None),
     Column("B", <<"i", "n", "t">>, <<"B">>, FALSE, "B", "Id", "B", None)}

TableNames == {"A", "B"}
ColumnLists == UNION {[1..n -> Columns] : n \in 0..MaxColumns}
TableInfos ==
    UNION {{table_info \in [1..n -> [table : TableNames, columns : ColumnLists]] :
               \A i, j \in 1..n : table_info[i].table = table_info[j].table => i = j} :
           n \in 0..Cardinality(TableNames)}

InitAdapter ==
    /\ namespace = "NS"
    /\ service_name = "Service"
    /\ schemas = <<>>
    /\ metadata = <<>>
    /\ call = [op |-> "__init__"]
    /\ ret = RetNone
    /\ err = ""
    /\ template = AdapterTemplate
    /\ converter = NoConverter

NextAdapter ==
    \/ /\ ~converter.constructed
       /\ \E database_client \in AdapterClients :
              OdataConverter("template.json", database_client)
    \/ /\ schemas = <<>>
       /\ add_schema("S1", "")
    \/ /\ Len(schemas) = 1
       /\ schemas[1].EntityContainers = <<>>
       /\ add_entity_container(SchemaDict(1), "C1")
    \/ /\ Len(schemas) = 1
       /\ Len(schemas[1].EntityContainers) = 1
       /\ schemas[1].EntityTypes = <<>>
       /\ schemas[1].EntityContainers[1].EntitySets = <<>>
       /\ \E table_info \in TableInfos :
              create_model_from_table_info(1, 1, namespace, table_info)

SpecAdapter == InitAdapter /\ [][NextAdapter]_vars

\* the catalog of the last call and its tables
TableNamed(table_info, table) ==
    table_info[CHOOSE i \in DOMAIN table_info : table_info[i].table = table]

TablesOf(table_info) == {table_info[i].table : i \in DOMAIN table_info}

\* table A has a column with a foreign key referencing table B
Refers(table_info, a, b) ==
    \E i \in DOMAIN TableNamed(table_info, a).columns :
        /\ TableNamed(table_info, a).columns[i].foreign_key_col # ""
        /\ TableNamed(table_info, a).columns[i].to_tbl_fk_ref = b

\* every foreign key refers to another table of the catalog, no column has
\* the name of a table and every table has a column without a foreign key
PlainCatalog(table_info) ==
    /\ \A i \in DOMAIN table_info : \A j \in DOMAIN table_info[i].columns :
           LET col == table_info[i].columns[j]
           IN /\ col.column \notin TablesOf(table_info)
              /\ col.foreign_key_col # "" =>
                    /\ col.to_tbl_fk_ref \in TablesOf(table_info)
                    /\ col.to_tbl_fk_ref # table_info[i].table
    /\ \A i \in DOMAIN table_info : \E j \in DOMAIN table_info[i].columns :
           table_info[i].columns[j].foreign_key_col = ""

\* the entity type named after table A has a navigation property to table B
Navigates(ss, a, b) ==
    \E s \in 1..Len(ss) : \E t \in 1..Len(ss[s].EntityTypes) :
        /\ ss[s].EntityTypes[t].Name = a
        /\ \E i \in DOMAIN NavigationPropertiesOf(ss[s].EntityTypes[t]) :
               NavigationPropertiesOf(ss[s].EntityTypes[t])[i].Type = b

(***************************************************************************)
(* C28: when a column of table A has a foreign key referencing another     *)
(* table B of the catalog, create_model_from_table_info completes and A's  *)
(* entity type has a navigation property targeting B, whatever the order   *)
(* of the tables.  Stated for the catalogs where nothing else can fail:    *)
(* no table refers to itself, no column has the name of a table and every  *)
(* table has a column without a foreign key.                               *)
(***************************************************************************)
C28_Original ==
    (call.op = "create_model_from_table_info" /\ PlainCatalog(call.table_info)) =>
        \A a, b \in TablesOf(call.table_info) :
            (a # b /\ Refers(call.table_info, a, b)) =>
                /\ err = ""
                /\ Navigates(schemas, a, b)

(***************************************************************************)
(* C29: in every model create_model_from_table_info has produced, each     *)
(* name in the Keys of an entity type is the name of one of the Properties *)
(* of that entity type.                                                    *)
(***************************************************************************)
C29_Original ==
    (call.op = "create_model_from_table_info" /\ err = "") =>
        \A s \in 1..Len(schemas) : \A t \in 1..Len(schemas[s].EntityTypes) :
            \A i \in DOMAIN KeysOf(schemas[s].EntityTypes[t]) :
                KeysOf(schemas[s].EntityTypes[t])[i]
                    \in NamesOf(schemas[s].EntityTypes[t].Properties)

====
